---- MODULE Spec2Model ----
(***************************************************************************)
(* k6-balance-reader: the payday / weekday arithmetic, the balance         *)
(* extraction and the GET / handler, modelled from the revision that has   *)
(* generateBalanceData (src/unnamed/part_000).  src/index.js is the older  *)
(* near-duplicate; where it differs a comment says so.                     *)
(*                                                                         *)
(* An instant (a moment object's value) is an integer number of ticks.  A  *)
(* day has SecsPerDay seconds of MsPerSec milliseconds each, so that the   *)
(* code's set('hour',0).set('minute',0).set('second',0), which leaves the  *)
(* milliseconds alone, is visible.  Day numbers count from 1970-01-01.     *)
(***************************************************************************)
EXTENDS Integers, Sequences, FiniteSets, TLC

VARIABLES
    paymentDayInMonth,  \* process.env.PAYMENT_DAY_IN_MONTH
    pricePerMeal,       \* parseFloat(process.env.PRICE_PER_MEAL)
    now,                \* the instant moment() yields during the call
    pc,                 \* position of the running handler / function
    nextPayDate,        \* value returned by getNextPayDate
    from,               \* first argument of calculateWeekdaysBetweenDates
    to,                 \* the moment object passed as `to` (mutable)
    toArg,              \* the instant `to` denoted when the call was made
    weekdays,           \* [dayCount, iterations] returned / performed
    openBrowsers,       \* browsers launched and not yet closed
    balanceString,      \* innerText of .balance-and-date .balance
    dateString,         \* innerText of .balance-and-date .date
    balance,            \* value getK6Balance resolved to
    response,           \* what the handler sent with res.json
    served              \* requests that have run to their end

vars == <<paymentDayInMonth, pricePerMeal, now, pc, nextPayDate, from, to,
          toArg, weekdays, openBrowsers, balanceString, dateString, balance,
          response, served>>

----------------------------------------------------------------------------
(* Bounds of the model *)

SecsPerDay == 2
MsPerSec == 2
NowYear == 2026
NumYears == 1
WeekSpanDays == 9
MaxRequests == 2
MaxWeekdays == 6

TicksPerDay == SecsPerDay * MsPerSec

None == [kind |-> "none"]

----------------------------------------------------------------------------
(* Calendar arithmetic performed by moment on the host's local clock *)

Min(a, b) == IF a < b THEN a ELSE b

IsLeap(y) == (y % 4 = 0 /\ y % 100 # 0) \/ y % 400 = 0

DaysInMonth(y, m) ==
    IF m = 2 THEN (IF IsLeap(y) THEN 29 ELSE 28)
    ELSE IF m \in {4, 6, 9, 11} THEN 30 ELSE 31

\* Day number of the civil date y-m-d (proleptic Gregorian, 1970-01-01 = 0).
DayNumber(y, m, d) ==
    LET yy  == IF m <= 2 THEN y - 1 ELSE y
        era == yy \div 400
        yoe == yy - era * 400
        mp  == IF m > 2 THEN m - 3 ELSE m + 9
        doy == (153 * mp + 2) \div 5 + d - 1
        doe == yoe * 365 + yoe \div 4 - yoe \div 100 + doy
    IN  era * 146097 + doe - 719468

\* The civil date <<y, m, d>> of a day number: what format('YYYY-MM-DD') prints.
Civil(n) ==
    LET z   == n + 719468
        era == z \div 146097
        doe == z - era * 146097
        yoe == (doe - doe \div 1460 + doe \div 36524 - doe \div 146096) \div 365
        doy == doe - (365 * yoe + yoe \div 4 - yoe \div 100)
        mp  == (5 * doy + 2) \div 153
        d   == doy - (153 * mp + 2) \div 5 + 1
        m   == IF mp < 10 THEN mp + 3 ELSE mp - 9
        y   == yoe + era * 400 + (IF m <= 2 THEN 1 ELSE 0)
    IN  <<y, m, d>>

DayOf(t) == t \div TicksPerDay
TickOf(t) == t % TicksPerDay
MsOf(t) == t % MsPerSec
YearOf(t) == Civil(DayOf(t))[1]

\* moment#format('YYYY-MM-DD')
FormatDate(t) == Civil(DayOf(t))

\* moment#day(): 0 = Sunday ... 6 = Saturday
day(t) == (DayOf(t) + 4) % 7

\* moment#subtract(1, 'day')
SubtractDay(t) == t - TicksPerDay

\* moment().set('date', n).set('hour', 0).set('minute', 0).set('second', 0):
\* Date#setDate overflows into the following month, the milliseconds stay.
SetDateMidnight(t, n) ==
    LET c == Civil(DayOf(t))
    IN  (DayNumber(c[1], c[2], 1) + n - 1) * TicksPerDay + MsOf(t)

\* moment#add(1, 'months'): the day of month is clamped to the target month.
AddMonth(t) ==
    LET c  == Civil(DayOf(t))
        y2 == IF c[2] = 12 THEN c[1] + 1 ELSE c[1]
        m2 == IF c[2] = 12 THEN 1 ELSE c[2] + 1
        d2 == Min(c[3], DaysInMonth(y2, m2))
    IN  DayNumber(y2, m2, d2) * TicksPerDay + TickOf(t)

\* moment#diff(that, 'days'): the elapsed time in days, truncated toward zero.
DiffDays(a, b) ==
    IF a >= b THEN (a - b) \div TicksPerDay ELSE -((b - a) \div TicksPerDay)

----------------------------------------------------------------------------
(* holidays-norway: the public holidays of one year, as civil dates *)

EasterSunday(y) ==
    LET a == y % 19
        b == y \div 100
        c == y % 100
        d == b \div 4
        e == b % 4
        f == (b + 8) \div 25
        g == (b - f + 1) \div 3
        h == (19 * a + b - d - g + 15) % 30
        i == c \div 4
        k == c % 4
        l == (32 + 2 * e + 2 * i - h - k) % 7
        m == (a + 11 * h + 22 * l) \div 451
        mo == (h + l - 7 * m + 114) \div 31
        dy == ((h + l - 7 * m + 114) % 31) + 1
    IN  DayNumber(y, mo, dy)

holidays(y) ==
    LET e == EasterSunday(y)
    IN  {<<y, 1, 1>>, <<y, 5, 1>>, <<y, 5, 17>>, <<y, 12, 25>>, <<y, 12, 26>>}
        \cup {Civil(e + k) : k \in {-7, -3, -2, 0, 1, 39, 49, 50}}

----------------------------------------------------------------------------
(* getNextPayDate *)

RECURSIVE WalkBack(_, _)
WalkBack(t, holidayArray) ==
    IF FormatDate(t) \in holidayArray \/ day(t) \in {0, 6}
    THEN WalkBack(SubtractDay(t), holidayArray)
    ELSE t

\* The holiday list is fetched for the year of the clock, moment().format('Y').
HolidayYear(t, candidate) == YearOf(t)

\* Mutant: the candidate is never advanced to the next month.
RollIfBefore_never(candidate, t) == candidate

RollIfBefore(candidate, t) ==
    IF candidate < t THEN AddMonth(candidate) ELSE candidate

getNextPayDate(t, payDay) ==
    LET candidate == RollIfBefore(SetDateMidnight(t, payDay), t)
    IN  WalkBack(candidate, holidays(HolidayYear(t, candidate)))

----------------------------------------------------------------------------
(* calculateWeekdaysBetweenDates *)

\* What the loop body does to the moment object it was handed as `to`.
StepCursor(t) == SubtractDay(t)

RECURSIVE WeekdayLoop(_, _, _, _)
WeekdayLoop(daysUntilPayment, cursor, dayCount, iters) ==
    IF daysUntilPayment >= 0
    THEN WeekdayLoop(daysUntilPayment - 1, StepCursor(cursor),
                     IF day(cursor) \notin {0, 6} THEN dayCount + 1 ELSE dayCount,
                     iters + 1)
    ELSE [dayCount |-> dayCount, to |-> cursor, iterations |-> iters]

calculateWeekdaysBetweenDates(f, t) ==
    WeekdayLoop(DiffDays(t, f), t, 0, 0)

----------------------------------------------------------------------------
(* JavaScript numbers, as far as the report arithmetic needs them *)

Num(n) == [k |-> "num", v |-> n]
NaN == [k |-> "NaN", v |-> 0]
PosInf == [k |-> "Infinity", v |-> 1]
NegInf == [k |-> "Infinity", v |-> -1]

\* Math.floor(a / p) for integers a and p
FloorDiv(a, p) ==
    IF p > 0 THEN Num(a \div p)
    ELSE IF p < 0 THEN Num((-a) \div (-p))
    ELSE IF a > 0 THEN PosInf
    ELSE IF a < 0 THEN NegInf
    ELSE NaN

\* w - x for an integer w
Minus(w, x) ==
    IF x.k = "num" THEN Num(w - x.v)
    ELSE IF x.k = "Infinity" THEN [k |-> "Infinity", v |-> -x.v]
    ELSE NaN

\* x * p for an integer p
Times(x, p) ==
    IF x.k = "num" THEN Num(x.v * p)
    ELSE IF x.k = "Infinity" /\ p # 0
         THEN [k |-> "Infinity", v |-> IF p > 0 THEN x.v ELSE -x.v]
    ELSE NaN

----------------------------------------------------------------------------
(* Texts are sequences of characters *)

Digits == <<"0", "1", "2", "3", "4", "5", "6", "7", "8", "9">>
Digit == {Digits[i] : i \in 1..10}
DigitVal(c) == (CHOOSE i \in 1..10 : Digits[i] = c) - 1

Upper == {"S", "A", "L", "D", "O", "N", "K", "E", "U", "R"}
Lower == {"s", "a", "l", "d", "o", "n", "k", "e", "u", "r"}
Letter == Upper \cup Lower

\* Case folding of the RegExp 'i' flag, on the letters of the literal prefix
Fold(c) ==
    CASE c = "S" -> "s" [] c = "A" -> "a" [] c = "L" -> "l"
      [] c = "D" -> "d" [] c = "O" -> "o" [] OTHER -> c

Undefined == [def |-> FALSE, s |-> <<>>]
Defined(x) == [def |-> TRUE, s |-> x]

\* arr[i] of a JavaScript array: undefined outside 0 .. length - 1
Index(arr, i) == IF i + 1 \in DOMAIN arr THEN Defined(arr[i + 1]) ELSE Undefined

AllIn(s, a, b, S) == \A i \in a..b : s[i] \in S

\* parseFloat / parseInt of a text that starts with a digit and holds no
\* decimal point: the value of its longest prefix of digits.
RECURSIVE DigitsValue(_, _, _)
DigitsValue(s, i, acc) ==
    IF i <= Len(s) /\ s[i] \in Digit
    THEN DigitsValue(s, i + 1, acc * 10 + DigitVal(s[i]))
    ELSE acc

parseFloat(s) == DigitsValue(s, 1, 0)
parseInt(s) == DigitsValue(s, 1, 0)

SaldoPrefix == <<"s", "a", "l", "d", "o", ":", " ">>

\* Positions j of the blank that separates the two groups of
\* /^Saldo: ([0-9].+) ([A-Z]{1,5})$/i: the literal prefix, a digit, at least
\* one more character, the blank, then one to five letters up to the end.
BalanceSplits(s) ==
    {j \in 10..Len(s) :
        /\ \A i \in 1..7 : Fold(s[i]) = SaldoPrefix[i]
        /\ s[8] \in Digit
        /\ s[j] = " "
        /\ Len(s) - j \in 1..5
        /\ AllIn(s, j + 1, Len(s), Letter)}

\* balanceMatcher.test(balanceString)
balanceMatcherTest(s) == BalanceSplits(s) # {}

\* balanceString.match(balanceMatcher): [whole, group 1, group 2]
balanceMatches(s) ==
    LET j == CHOOSE j \in BalanceSplits(s) : \A i \in BalanceSplits(s) : i <= j
    IN  <<s, SubSeq(s, 8, j - 1), SubSeq(s, j + 1, Len(s))>>

\* Group lengths <<a, b, e, f>> under which the text matches
\* /^([0-9]{1,2})\.([0-9]{1,2})\.([0-9]{4}) ([0-9]{1,2}):([0-9]{1,2})$/
DateSplits(s) ==
    {q \in {1, 2} \X {1, 2} \X {1, 2} \X {1, 2} :
        LET a == q[1]
            b == q[2]
            e == q[3]
            f == q[4]
            p1 == a + 1
            p2 == p1 + b + 1
            p3 == p2 + 4 + 1
            p4 == p3 + e + 1
        IN  /\ Len(s) = p4 + f
            /\ AllIn(s, 1, a, Digit) /\ s[p1] = "."
            /\ AllIn(s, p1 + 1, p2 - 1, Digit) /\ s[p2] = "."
            /\ AllIn(s, p2 + 1, p3 - 1, Digit) /\ s[p3] = " "
            /\ AllIn(s, p3 + 1, p4 - 1, Digit) /\ s[p4] = ":"
            /\ AllIn(s, p4 + 1, Len(s), Digit)}

\* dateMatcher.test(dateString)
dateMatcherTest(s) == DateSplits(s) # {}

\* dateString.match(dateMatcher): [whole, day, month, year, hour, minute]
dateMatches(s) ==
    LET q == CHOOSE q \in DateSplits(s) : TRUE
        p1 == q[1] + 1
        p2 == p1 + q[2] + 1
        p3 == p2 + 5
        p4 == p3 + q[3] + 1
    IN  <<s, SubSeq(s, 1, q[1]), SubSeq(s, p1 + 1, p2 - 1), SubSeq(s, p2 + 1, p3 - 1),
          SubSeq(s, p3 + 1, p4 - 1), SubSeq(s, p4 + 1, Len(s))>>

\* new Date(year, month - 1, day, hour, minute), kept as its five fields
dateObject(s) ==
    LET m == dateMatches(s)
    IN  [year |-> parseInt(m[4]), month |-> parseInt(m[3]) - 1, date |-> parseInt(m[2]),
         hours |-> parseInt(m[5]), minutes |-> parseInt(m[6])]

\* The index the code reads the currency unit at
CurrencyGroupIndex == 80

False == [kind |-> "false"]

\* getK6Balance, from the two innerText reads to the returned value
extractBalance(bs, ds) ==
    IF ~balanceMatcherTest(bs) THEN False
    ELSE IF ~dateMatcherTest(ds) THEN False
    ELSE [kind |-> "record",
          currentBalance |-> parseFloat(balanceMatches(bs)[2]),
          balanceCurrencyUnit |-> Index(balanceMatches(bs), CurrencyGroupIndex),
          lastToppedUpUTC |-> dateObject(ds)]

----------------------------------------------------------------------------
(* generateBalanceData, after the balance has been obtained *)

\* Mutant: a surplus is reported as a top-up of zero.
report_clamped(b, price, weekdaysUntilNextPayment) ==
    LET balanceInNumberOfMeals == FloorDiv(b.currentBalance, price)
        numberOfMealsNeeded == Minus(weekdaysUntilNextPayment, balanceInNumberOfMeals)
        topupNeeded == Times(numberOfMealsNeeded, price)
    IN  [kind |-> "report",
         currentBalance |-> b.currentBalance,
         currentBalanceInNumberOfMeals |-> balanceInNumberOfMeals,
         balanceCurrencyUnit |-> b.balanceCurrencyUnit,
         weekdaysUntilNextPayment |-> weekdaysUntilNextPayment,
         pricePerMeal |-> price,
         mealsNeeded |-> numberOfMealsNeeded,
         topupNeeded |-> IF topupNeeded.k = "num" /\ topupNeeded.v < 0
                         THEN Num(0) ELSE topupNeeded,
         lastToppedUpUTC |-> b.lastToppedUpUTC]

report(b, price, weekdaysUntilNextPayment) ==
    LET balanceInNumberOfMeals == FloorDiv(b.currentBalance, price)
        numberOfMealsNeeded == Minus(weekdaysUntilNextPayment, balanceInNumberOfMeals)
        topupNeeded == Times(numberOfMealsNeeded, price)
    IN  [kind |-> "report",
         currentBalance |-> b.currentBalance,
         currentBalanceInNumberOfMeals |-> balanceInNumberOfMeals,
         balanceCurrencyUnit |-> b.balanceCurrencyUnit,
         weekdaysUntilNextPayment |-> weekdaysUntilNextPayment,
         pricePerMeal |-> price,
         mealsNeeded |-> numberOfMealsNeeded,
         topupNeeded |-> topupNeeded,
         lastToppedUpUTC |-> b.lastToppedUpUTC]

ErrorResponse == [kind |-> "error", error |-> "Could not obtain account balance"]

----------------------------------------------------------------------------
(* Inputs *)

\* Texts the account page may show: "Saldo: 130 NOK", "saldo: 45 kr",
\* "Saldo: 0,00 NOK", "Saldo: 5 NOK", "Saldo: NOK", "Saldo: 19 EUROSS"
BalanceTexts ==
    {<<"S", "a", "l", "d", "o", ":", " ", "1", "3", "0", " ", "N", "O", "K">>,
     <<"s", "a", "l", "d", "o", ":", " ", "4", "5", " ", "k", "r">>,
     <<"S", "a", "l", "d", "o", ":", " ", "0", ",", "0", "0", " ", "N", "O", "K">>,
     <<"S", "a", "l", "d", "o", ":", " ", "5", " ", "N", "O", "K">>,
     <<"S", "a", "l", "d", "o", ":", " ", "N", "O", "K">>,
     <<"S", "a", "l", "d", "o", ":", " ", "1", "9", " ", "E", "U", "R", "O", "S", "S">>}

\* "3.11.2026 9:05", "03.11.2026 09:05", "2026-11-03"
DateTexts ==
    {<<"3", ".", "1", "1", ".", "2", "0", "2", "6", " ", "9", ":", "0", "5">>,
     <<"0", "3", ".", "1", "1", ".", "2", "0", "2", "6", " ", "0", "9", ":", "0", "5">>,
     <<"2", "0", "2", "6", "-", "1", "1", "-", "0", "3">>}

Prices == {-20, 0, 20, 25}
PayDays == {1, 5, 31}

\* Every instant of the years NowYear .. NowYear + NumYears - 1
YearInstants ==
    (DayNumber(NowYear, 1, 1) * TicksPerDay)
        .. (DayNumber(NowYear + NumYears, 1, 1) * TicksPerDay - 1)

\* Monday 2026-11-02 00:00 and the WeekSpanDays days after it
WindowStart == DayNumber(2026, 11, 2) * TicksPerDay
WindowInstants == WindowStart .. (WindowStart + (WeekSpanDays + 1) * TicksPerDay - 1)

NoWeekdays == [dayCount |-> 0, iterations |-> 0]

Idle ==
    /\ nextPayDate = 0 /\ from = 0 /\ to = 0 /\ toArg = 0
    /\ weekdays = NoWeekdays
    /\ openBrowsers = 0
    /\ balanceString = <<>> /\ dateString = <<>>
    /\ balance = None /\ response = None
    /\ served = 0

----------------------------------------------------------------------------
(* PaySpec: getNextPayDate applied to every clock reading and payment day *)

PayInit ==
    /\ pc = "pay:call"
    /\ now \in YearInstants
    /\ paymentDayInMonth \in 1..31
    /\ pricePerMeal = 0
    /\ Idle

PayCall ==
    /\ pc = "pay:call"
    /\ nextPayDate' = getNextPayDate(now, paymentDayInMonth)
    /\ pc' = "pay:done"
    /\ UNCHANGED <<paymentDayInMonth, pricePerMeal, now, from, to, toArg, weekdays,
                   openBrowsers, balanceString, dateString, balance, response, served>>

PayNext == PayCall

PaySpec == PayInit /\ [][PayNext]_vars

----------------------------------------------------------------------------
(* WeekSpec: calculateWeekdaysBetweenDates applied to two instants *)

WeekInit ==
    /\ pc = "week:call"
    /\ from \in WindowInstants
    /\ to \in WindowInstants
    /\ toArg = to
    /\ now = from
    /\ paymentDayInMonth = 1 /\ pricePerMeal = 0
    /\ nextPayDate = 0 /\ weekdays = NoWeekdays /\ openBrowsers = 0
    /\ balanceString = <<>> /\ dateString = <<>>
    /\ balance = None /\ response = None /\ served = 0

WeekCall ==
    /\ pc = "week:call"
    /\ LET r == calculateWeekdaysBetweenDates(from, to)
       IN  /\ weekdays' = [dayCount |-> r.dayCount, iterations |-> r.iterations]
           /\ to' = r.to
    /\ pc' = "week:done"
    /\ UNCHANGED <<paymentDayInMonth, pricePerMeal, now, nextPayDate, from, toArg,
                   openBrowsers, balanceString, dateString, balance, response, served>>

WeekNext == WeekCall

WeekSpec == WeekInit /\ [][WeekNext]_vars

----------------------------------------------------------------------------
(* ReportSpec: the report arithmetic applied to an extracted balance *)

ReportInit ==
    /\ pc = "report:call"
    /\ balanceString \in BalanceTexts
    /\ dateString \in DateTexts
    /\ balance = extractBalance(balanceString, dateString)
    /\ balance.kind = "record"
    /\ pricePerMeal \in Prices
    /\ weekdays \in [dayCount : 0..MaxWeekdays, iterations : {0}]
    /\ paymentDayInMonth = 1 /\ now = WindowStart
    /\ nextPayDate = 0 /\ from = 0 /\ to = 0 /\ toArg = 0
    /\ openBrowsers = 0 /\ response = None /\ served = 0

ReportCall ==
    /\ pc = "report:call"
    /\ response' = report(balance, pricePerMeal, weekdays.dayCount)
    /\ pc' = "report:done"
    /\ UNCHANGED <<paymentDayInMonth, pricePerMeal, now, nextPayDate, from, to, toArg,
                   weekdays, openBrowsers, balanceString, dateString, balance, served>>

ReportNext == ReportCall

ReportSpec == ReportInit /\ [][ReportNext]_vars

----------------------------------------------------------------------------
(* Spec: the server handling GET / requests one after another *)

Init ==
    /\ pc = "idle"
    /\ paymentDayInMonth \in PayDays
    /\ pricePerMeal \in Prices
    /\ now = WindowStart
    /\ Idle

\* app.get('/') is entered and calls generateBalanceData, which calls getK6Balance
Request ==
    /\ pc = "idle"
    /\ served < MaxRequests
    /\ pc' = "launch"
    /\ balance' = None /\ response' = None
    /\ balanceString' = <<>> /\ dateString' = <<>>
    /\ nextPayDate' = 0 /\ from' = 0 /\ to' = 0 /\ toArg' = 0
    /\ weekdays' = NoWeekdays
    /\ UNCHANGED <<paymentDayInMonth, pricePerMeal, now, openBrowsers, served>>

\* await playwright.chromium.launch()
Launch ==
    /\ pc = "launch"
    /\ openBrowsers' = openBrowsers + 1
    /\ pc' = "page"
    /\ UNCHANGED <<paymentDayInMonth, pricePerMeal, now, nextPayDate, from, to, toArg,
                   weekdays, balanceString, dateString, balance, response, served>>

\* newContext ... innerText: the page shows its two texts
PageLoaded ==
    /\ pc = "page"
    /\ balanceString' \in BalanceTexts
    /\ dateString' \in DateTexts
    /\ pc' = "extract"
    /\ UNCHANGED <<paymentDayInMonth, pricePerMeal, now, nextPayDate, from, to, toArg,
                   weekdays, openBrowsers, balance, response, served>>

\* One of the awaited page calls rejects (navigation error, selector timeout).
\* Nothing catches it: getK6Balance, generateBalanceData and the handler
\* reject in turn, and the handler never calls res.json.
PageFailed ==
    /\ pc = "page"
    /\ response' = [kind |-> "unhandledRejection"]
    /\ pc' = "idle"
    /\ served' = served + 1
    /\ UNCHANGED <<paymentDayInMonth, pricePerMeal, now, nextPayDate, from, to, toArg,
                   weekdays, openBrowsers, balanceString, dateString, balance>>

\* The two pattern tests: `return false` on a mismatch, else on to browser.close()
Extract ==
    /\ pc = "extract"
    /\ IF extractBalance(balanceString, dateString) = False
       THEN balance' = False /\ pc' = "respond"
       ELSE balance' = balance /\ pc' = "close"
    /\ UNCHANGED <<paymentDayInMonth, pricePerMeal, now, nextPayDate, from, to, toArg,
                   weekdays, openBrowsers, balanceString, dateString, response, served>>

\* await browser.close(), then the record is returned
Close ==
    /\ pc = "close"
    /\ openBrowsers' = openBrowsers - 1
    /\ balance' = extractBalance(balanceString, dateString)
    /\ pc' = "respond"
    /\ UNCHANGED <<paymentDayInMonth, pricePerMeal, now, nextPayDate, from, to, toArg,
                   weekdays, balanceString, dateString, response, served>>

\* generateBalanceData resumes with a record: payday, weekdays, report; the
\* handler sends the result
RespondReport ==
    /\ pc = "respond"
    /\ balance # False
    /\ \E t \in WindowInstants :
       \E payDate \in {getNextPayDate(t, paymentDayInMonth)} :
       \E r \in {calculateWeekdaysBetweenDates(t, payDate)} :
            /\ now' = t
            /\ from' = t
            /\ toArg' = payDate
            /\ nextPayDate' = r.to
            /\ to' = r.to
            /\ weekdays' = [dayCount |-> r.dayCount, iterations |-> r.iterations]
            /\ response' = report(balance, pricePerMeal, r.dayCount)
    /\ pc' = "idle"
    /\ served' = served + 1
    /\ UNCHANGED <<paymentDayInMonth, pricePerMeal, openBrowsers, balanceString,
                   dateString, balance>>

\* generateBalanceData returns false and the handler sends the error object
RespondError ==
    /\ pc = "respond"
    /\ balance = False
    /\ response' = ErrorResponse
    /\ pc' = "idle"
    /\ served' = served + 1
    /\ UNCHANGED <<paymentDayInMonth, pricePerMeal, now, nextPayDate, from, to, toArg,
                   weekdays, openBrowsers, balanceString, dateString, balance>>

Next ==
    \/ Request
    \/ Launch
    \/ PageLoaded
    \/ PageFailed
    \/ Extract
    \/ Close
    \/ RespondReport
    \/ RespondError

Spec == Init /\ [][Next]_vars

----------------------------------------------------------------------------
(* Properties of getNextPayDate, under PaySpec *)

IsWeekend(t) == day(t) \in {0, 6}
IsHoliday(t) == FormatDate(t) \in holidays(YearOf(t))

\* The unadjusted candidate: paymentDayInMonth of the current month, time zeroed
Naive == SetDateMidnight(now, paymentDayInMonth)

\* C1: the date getNextPayDate returns is never a Saturday, never a Sunday and
\* never a holiday of the returned date's own calendar year.
C1_NeverWeekendOrHoliday ==
    pc = "pay:done" => ~IsWeekend(nextPayDate) /\ ~IsHoliday(nextPayDate)

\* C4 as stated: if the naive candidate is not before now and is neither a
\* weekend day nor a holiday, the payday is not before now; in every other
\* case the payday is strictly less than the naive candidate.
C4_FutureOrBelowNaive ==
    pc = "pay:done" =>
        IF Naive >= now /\ ~IsWeekend(Naive) /\ ~IsHoliday(Naive)
        THEN nextPayDate >= now
        ELSE nextPayDate < Naive

\* C4 amended: as above when the naive candidate is not before now; when it is
\* before now the payday lies after the naive candidate and no later than the
\* naive candidate advanced by one calendar month.
C4_FutureOrBelowNaiveOrNextMonth ==
    pc = "pay:done" =>
        IF Naive >= now /\ ~IsWeekend(Naive) /\ ~IsHoliday(Naive)
        THEN nextPayDate >= now
        ELSE IF Naive >= now
        THEN nextPayDate < Naive
        ELSE nextPayDate > Naive /\ nextPayDate <= AddMonth(Naive)

\* A payday that was rolled to the next month and then pushed backward
C4_RolledAndPushedBack ==
    /\ pc = "pay:done"
    /\ Naive < now
    /\ nextPayDate < AddMonth(Naive)
    /\ nextPayDate > now

----------------------------------------------------------------------------
(* Properties of calculateWeekdaysBetweenDates, under WeekSpec *)

\* Monday-Friday dates among the day numbers a .. b
WeekdayDates(a, b) == {d \in a..b : (d + 4) % 7 \notin {0, 6}}

\* C2: when to's date is on or after from's date, the count is the number of
\* Monday-Friday dates in the inclusive range date(from) .. date(to).
C2_CountsInclusiveDateRange ==
    (pc = "week:done" /\ DayOf(toArg) >= DayOf(from)) =>
        weekdays.dayCount = Cardinality(WeekdayDates(DayOf(from), DayOf(toArg)))

\* C3: when to's date is strictly before from's date, the loop performs no
\* iteration and the count is 0.
C3_ZeroWhenToBeforeFrom ==
    (pc = "week:done" /\ DayOf(toArg) < DayOf(from)) =>
        weekdays.iterations = 0 /\ weekdays.dayCount = 0

\* C9: after the call `to` and `from` denote the same instants as before the
\* call (`from` was the clock reading, `to` the instant recorded in toArg).
C9_ArgumentsUnchanged ==
    pc = "week:done" => to = toArg /\ from = now

----------------------------------------------------------------------------
(* Properties of the report arithmetic, under ReportSpec *)

\* C5: for a balance >= 0 and a price > 0, balanceInMeals is the k with
\* k * price <= amount < (k + 1) * price, mealsNeeded = weekdays - k and
\* topupNeeded = mealsNeeded * price, negative when the balance covers the
\* remaining weekdays; price 25, amount 130, 3 weekdays gives 5, -2, -50 and
\* price 20, amount 0, 4 weekdays gives 0, 4, 80.
C5_ReportArithmetic ==
    (pc = "report:done" /\ balance.currentBalance >= 0 /\ pricePerMeal > 0) =>
        LET a == balance.currentBalance
            p == pricePerMeal
            w == weekdays.dayCount
        IN  /\ \E k \in 0..a :
                /\ k * p <= a /\ a < (k + 1) * p
                /\ response.currentBalanceInNumberOfMeals = Num(k)
                /\ response.mealsNeeded = Num(w - k)
                /\ response.topupNeeded = Num((w - k) * p)
            /\ (p = 25 /\ a = 130 /\ w = 3) =>
                /\ response.currentBalanceInNumberOfMeals = Num(5)
                /\ response.mealsNeeded = Num(-2)
                /\ response.topupNeeded = Num(-50)
            /\ (p = 20 /\ a = 0 /\ w = 4) =>
                /\ response.currentBalanceInNumberOfMeals = Num(0)
                /\ response.mealsNeeded = Num(4)
                /\ response.topupNeeded = Num(80)

\* A report whose balance more than covers the remaining weekdays
C5_SurplusReported ==
    /\ pc = "report:done"
    /\ pricePerMeal = 25 /\ balance.currentBalance = 130 /\ weekdays.dayCount = 3
    /\ response.topupNeeded = Num(-50)

\* C6: with a price of zero or less the computation fails with a DomainError
\* and no report is produced.
C6_DomainErrorOnBadPrice ==
    (pc = "report:done" /\ pricePerMeal <= 0) => response.kind = "DomainError"

----------------------------------------------------------------------------
(* Properties of the request handler, under Spec *)

\* C7: every request that has ended has sent exactly one response, a report
\* or the error object; a failed fetch or extraction ends with the error object.
C7_EveryRequestAnswered ==
    (pc = "idle" /\ served > 0) =>
        /\ response.kind \in {"report", "error"}
        /\ (balance.kind # "record" => response = ErrorResponse)

\* C8: every extracted record carries as currency unit the second group of
\* the balance pattern, one to five letters.
C8_CurrencyUnitIsMatchedGroup ==
    balance.kind = "record" =>
        /\ balance.balanceCurrencyUnit = Defined(balanceMatches(balanceString)[3])
        /\ Len(balance.balanceCurrencyUnit.s) \in 1..5

\* C10: once a request has ended, no browser it launched is still open.
C10_NoBrowserLeftOpen ==
    pc = "idle" => openBrowsers = 0

====
